---- MODULE Spec2Model ----
(***************************************************************************)
(* reddit_cm (src/main.py): export of an account's joined communities to a *)
(* file and import of such a file into an account.  The model follows the  *)
(* import loop of import_communities record by record, with the remote     *)
(* platform (praw) as the environment: every community name has a fixed    *)
(* behaviour (which client call raises, and with which message), and the   *)
(* account's set of subscribed communities is the remote state.            *)
(***************************************************************************)
EXTENDS Integers, Sequences, FiniteSets, TLC

\* ------------------------------------------------------------------ bounds

\* Longest 'communities' list of an import file.
MaxLen == 3
\* Number of commands (import or export) invoked one after the other.
MaxRuns == 2
\* Longest list of the files on which every error message is tried.
MaxErrLen == 1

\* ------------------------------------------------------------ text values

\* A message is the sequence of its characters, so that lower() and the
\* substring tests of the classification act on the text itself.
UpperAlphabet ==
  <<"A","B","C","D","E","F","G","H","I","J","K","L","M",
    "N","O","P","Q","R","S","T","U","V","W","X","Y","Z">>
LowerAlphabet ==
  <<"a","b","c","d","e","f","g","h","i","j","k","l","m",
    "n","o","p","q","r","s","t","u","v","w","x","y","z">>

\* str.lower() on one character.
LowerChar(c) ==
  IF \E k \in 1..Len(UpperAlphabet) : UpperAlphabet[k] = c
  THEN LowerAlphabet[CHOOSE k \in 1..Len(UpperAlphabet) : UpperAlphabet[k] = c]
  ELSE c

\* str(e).lower()
Lower(s) == [k \in 1..Len(s) |-> LowerChar(s[k])]

\* Python's `sub in s` on strings.
Contains(s, sub) ==
  \E k \in 0..(Len(s) - Len(sub)) :
     \A j \in 1..Len(sub) : s[k + j] = sub[j]

Txt_private   == <<"p","r","i","v","a","t","e">>
Txt_forbidden == <<"f","o","r","b","i","d","d","e","n">>
Txt_not_found == <<"n","o","t"," ","f","o","u","n","d">>
Txt_404       == <<"4","0","4">>
Txt_banned    == <<"b","a","n","n","e","d">>

\* Messages the platform client raises with (in their original case).
Msg_403Forbidden == <<"4","0","3"," ","F","o","r","b","i","d","d","e","n">>
Msg_Http404      == <<"H","T","T","P"," ","4","0","4"," ","N","o","t"," ","F","o","u","n","d">>
Msg_UserBanned   == <<"U","s","e","r"," ","i","s"," ","b","a","n","n","e","d">>
Msg_Timeout      == <<"T","i","m","e","o","u","t">>
Msg_Banned404    == <<"B","a","n","n","e","d",":"," ","4","0","4">>
Msg_PrivateNotFound ==
  <<"P","R","I","V","A","T","E",","," ","n","o","t"," ","f","o","u","n","d">>

Messages ==
  { Msg_403Forbidden, Msg_Http404, Msg_UserBanned, Msg_Timeout,
    Msg_Banned404, Msg_PrivateNotFound }

NoMsg == << >>

\* ------------------------------------------------------------ the platform

Names == {"python", "privatesub"}

\* dict.get('name') of a record without the key.
NoneValue == "<None>"

\* What one community does when the client is used on it: site is the call
\* that raises ("resolve": reddit.subreddit(name), "query": reading
\* user_is_subscriber, "subscribe": subreddit.subscribe()), "noattr" a handle
\* without the attribute user_is_subscriber, "none" a community on which
\* every call succeeds.  msg is the text of the exception raised.
FailingBehaviours ==
  [site : {"resolve", "query", "subscribe"}, msg : Messages]
QuietBehaviours ==
  [site : {"none", "noattr"}, msg : {NoMsg}]

\* "python" is a community on which every call succeeds; "privatesub" is the
\* community whose behaviour varies.
Platforms ==
  { p \in [Names -> FailingBehaviours \cup QuietBehaviours] :
       p["python"] = [site |-> "none", msg |-> NoMsg] }

\* The platforms on which each failing call raises with its usual message.
UsualMessage(site) ==
  IF site = "resolve" THEN Msg_Http404
  ELSE IF site = "query" THEN Msg_UserBanned
  ELSE Msg_403Forbidden

UsualPlatforms ==
  { p \in Platforms :
       p["privatesub"] \in FailingBehaviours
          => p["privatesub"].msg = UsualMessage(p["privatesub"].site) }

\* ------------------------------------------------------------ import files

\* One element of the 'communities' list: a mapping with a name (a community
\* name, the empty string, or NoneValue for a mapping without the key), or
\* something that is not a mapping.
NotADict == [isdict |-> FALSE, name |-> NoneValue]
Elements ==
  [isdict : {TRUE}, name : Names \cup {"", NoneValue}] \cup {NotADict}

\* The elements of the longer files: the missing key is left to the short ones.
UsualElements == [isdict : {TRUE}, name : Names \cup {""}] \cup {NotADict}

RECURSIVE SeqsUpTo(_, _)
SeqsUpTo(S, n) ==
  IF n = 0 THEN { << >> }
  ELSE LET shorter == SeqsUpTo(S, n - 1)
       IN  shorter \cup { Append(s, x) : s \in { t \in shorter : Len(t) = n - 1 }, x \in S }

\* A file as load_communities_file sees it: shape "list" is a mapping whose
\* 'communities' is a list; the other shapes fail the load.
ListDocs == [shape : {"list"}, communities : SeqsUpTo(UsualElements, MaxLen)]
ShortDocs == [shape : {"list"}, communities : SeqsUpTo(Elements, MaxErrLen)]
BadDocs  ==
  [shape : {"unparseable", "notmapping", "nokey", "notlist"}, communities : { << >> }]
Docs == ListDocs \cup BadDocs

\* --------------------------------------------------------------- variables

VARIABLES
  doc,               \* content of the import/export file
  platform,          \* behaviour of each community (fixed)
  subscribed,        \* communities the account is subscribed to (remote)
  pc,                \* "idle" (no command running) | "loop" (import running)
  dry_run,           \* the --dry-run flag of the running import
  communities,       \* the list import_communities iterates over
  idx,               \* number of records the loop has gone through
  successful_joins,
  failed_joins,
  already_joined,
  calls,             \* client calls of the running import, in order
  outcome,           \* list each processed record was added to, by position
  summary,           \* the printed summary of the last import, or NoSummary
  exit_code,         \* exit code of the last command, NoExit while none has ended
  start,             \* remote state when the running command began
  history,           \* the finished commands, oldest first
  cli,               \* the options given on the command line (fixed)
  config,            \* the file named by --config, if any (fixed)
  accepts,           \* whether the platform accepts the credentials (fixed)
  last               \* what the last command's setup came to

vars ==
  << doc, platform, subscribed, pc, dry_run, communities, idx,
     successful_joins, failed_joins, already_joined, calls, outcome,
     summary, exit_code, start, history, cli, config, accepts, last >>

NoSummary == [printed |-> FALSE]
NoExit == -1

\* ------------------------------------------------------- import, per record

\* `not community_name`
Falsy(v) == v \in {"", NoneValue}

\* The reason of the failure entry for an exception with message e: the
\* error text, and for the unknown case the message appended to it.
Reason(text, detail) == [error |-> text, detail |-> detail]

\* Mutant: 'banned' tested before 'not found' and '404'.
Classify_BannedFirst(e) ==
  LET error_msg == Lower(e)
  IN  IF Contains(error_msg, Txt_private) \/ Contains(error_msg, Txt_forbidden)
        THEN Reason("Private/Restricted community", NoMsg)
      ELSE IF Contains(error_msg, Txt_banned)
        THEN Reason("Banned from community", NoMsg)
      ELSE IF Contains(error_msg, Txt_not_found) \/ Contains(error_msg, Txt_404)
        THEN Reason("Community not found", NoMsg)
      ELSE Reason("Unknown error: ", e)

\* The except clause: the reason recorded for an exception with message e.
Classify(e) ==
  LET error_msg == Lower(e)
  IN  IF Contains(error_msg, Txt_private) \/ Contains(error_msg, Txt_forbidden)
        THEN Reason("Private/Restricted community", NoMsg)
      ELSE IF Contains(error_msg, Txt_not_found) \/ Contains(error_msg, Txt_404)
        THEN Reason("Community not found", NoMsg)
      ELSE IF Contains(error_msg, Txt_banned)
        THEN Reason("Banned from community", NoMsg)
      ELSE Reason("Unknown error: ", e)

Call(op, name, result) == [op |-> op, name |-> name, result |-> result]

\* Mutant: the test of user_is_subscriber inverted.
IsSubscriber_Inverted(b, name, sub) == b.site # "noattr" /\ name \notin sub

\* hasattr(subreddit, 'user_is_subscriber') and subreddit.user_is_subscriber
IsSubscriber(b, name, sub) == b.site # "noattr" /\ name \in sub

\* Mutant: subscribe() called whatever the flag.
ShouldSubscribe_Always(dry) == TRUE

\* Mutant: subscribe() never called.
ShouldSubscribe_Never(dry) == FALSE

\* `if not dry_run:` guarding subreddit.subscribe()
ShouldSubscribe(dry) == ~dry

\* Mutant: the dry-run test comes before the test of the subscription.
Attempt_DryBeforeQuery(name, dry, sub, plat) ==
  LET b == plat[name]
      End(cs, res, msg, after) ==
        [calls |-> cs, result |-> res, msg |-> msg, subscribed |-> after]
  IN  IF b.site = "resolve"
        THEN End(<<Call("resolve", name, "raised")>>, "raised", b.msg, sub)
      ELSE IF ~ShouldSubscribe(dry)
        THEN End(<<Call("resolve", name, "ok")>>, "joined", NoMsg, sub)
      ELSE IF b.site = "query"
        THEN End(<<Call("resolve", name, "ok"), Call("query", name, "raised")>>,
                 "raised", b.msg, sub)
      ELSE LET q == Call("query", name,
                         IF b.site = "noattr" THEN "noattr"
                         ELSE IF name \in sub THEN "true" ELSE "false")
               pre == <<Call("resolve", name, "ok"), q>>
           IN  IF IsSubscriber(b, name, sub)
                 THEN End(pre, "already", NoMsg, sub)
               ELSE IF b.site = "subscribe"
                 THEN End(pre \o <<Call("subscribe", name, "raised")>>,
                          "raised", b.msg, sub)
               ELSE End(pre \o <<Call("subscribe", name, "ok")>>,
                        "joined", NoMsg, sub \cup {name})

\* The body of the inner try for one named record: the client calls made,
\* how it ends ("already", "joined" or "raised" with the message), and the
\* remote state afterwards.
Attempt(name, dry, sub, plat) ==
  LET b == plat[name]
      End(cs, res, msg, after) ==
        [calls |-> cs, result |-> res, msg |-> msg, subscribed |-> after]
  IN  IF b.site = "resolve"
        THEN End(<<Call("resolve", name, "raised")>>, "raised", b.msg, sub)
      ELSE IF b.site = "query"
        THEN End(<<Call("resolve", name, "ok"), Call("query", name, "raised")>>,
                 "raised", b.msg, sub)
      ELSE LET q == Call("query", name,
                         IF b.site = "noattr" THEN "noattr"
                         ELSE IF name \in sub THEN "true" ELSE "false")
               pre == <<Call("resolve", name, "ok"), q>>
           IN  IF IsSubscriber(b, name, sub)
                 THEN End(pre, "already", NoMsg, sub)
               ELSE IF ~ShouldSubscribe(dry)
                 THEN End(pre, "joined", NoMsg, sub)
               ELSE IF b.site = "subscribe"
                 THEN End(pre \o <<Call("subscribe", name, "raised")>>,
                          "raised", b.msg, sub)
               ELSE End(pre \o <<Call("subscribe", name, "ok")>>,
                        "joined", NoMsg, sub \cup {name})

Failure(name, reason) == [name |-> name, error |-> reason]

MissingName == Failure("Unknown", Reason("Missing community name", NoMsg))

\* What one pass of the loop body comes to: abort is an exception that
\* leaves the loop; otherwise list names the list the record is added to
\* and entry what is added.
Out(ab, l, e, cs, after) ==
  [abort |-> ab, list |-> l, entry |-> e, calls |-> cs, subscribed |-> after]

\* Mutant: a record without a name is set aside, in none of the lists.
MissingNameList_Skipped == "skipped"

\* The list a record without a name is appended to.
MissingNameList == "failed"

\* The try/except of the loop body, for a record with a name.
\* Mutant: after a call raises, the calls for the record are made once more.
NamedRecord_Retry(name, dry, sub, plat) ==
  LET a == Attempt(name, dry, sub, plat)
  IN  IF a.result = "raised"
        THEN Out(FALSE, "failed", Failure(name, Classify(a.msg)), a.calls \o a.calls,
                 a.subscribed)
      ELSE IF a.result = "already"
        THEN Out(FALSE, "already", name, a.calls, a.subscribed)
      ELSE Out(FALSE, "joined", name, a.calls, a.subscribed)

\* A record with a name: the calls of Attempt, and the list its result
\* sends the record to.
NamedRecord(name, dry, sub, plat) ==
  LET a == Attempt(name, dry, sub, plat)
  IN  IF a.result = "raised"
        THEN Out(FALSE, "failed", Failure(name, Classify(a.msg)), a.calls, a.subscribed)
      ELSE IF a.result = "already"
        THEN Out(FALSE, "already", name, a.calls, a.subscribed)
      ELSE Out(FALSE, "joined", name, a.calls, a.subscribed)

\* Mutant: the handle is resolved before the name is looked at.
ProcessRecord_ResolveFirst(c, dry, sub, plat) ==
  IF ~c.isdict
    THEN Out(TRUE, "none", MissingName, << >>, sub)
  ELSE IF Falsy(c.name)
    THEN Out(FALSE, MissingNameList, MissingName,
             <<Call("resolve", c.name, "ok")>>, sub)
  ELSE NamedRecord(c.name, dry, sub, plat)

\* One pass of the loop body on element c.  community.get('name') on an
\* element that is not a mapping raises AttributeError outside the inner
\* try, which ends the loop.
ProcessRecord(c, dry, sub, plat) ==
  IF ~c.isdict
    THEN Out(TRUE, "none", MissingName, << >>, sub)
  ELSE IF Falsy(c.name)
    THEN Out(FALSE, MissingNameList, MissingName, << >>, sub)
  ELSE NamedRecord(c.name, dry, sub, plat)

\* Mutant: the entry is put at the front of the list.
Appended_Front(list, which, r) ==
  IF r.list = which THEN <<r.entry>> \o list ELSE list

\* Mutant: an already-joined community is also added to the joined ones.
Appended_Twice(list, which, r) ==
  IF r.list = which \/ (which = "joined" /\ r.list = "already")
  THEN Append(list, r.entry) ELSE list

\* list.append(entry) on the list called `which`, when the record goes there.
Appended(list, which, r) ==
  IF r.list = which THEN Append(list, r.entry) ELSE list

\* The summary printed after the loop.
Summary(dry, joined, already, failed, all) ==
  [printed |-> TRUE,
   label   |-> IF dry THEN "Would join" ELSE "Successfully joined",
   joined  |-> Len(joined),
   already |-> already,
   failed  |-> failed,
   total   |-> Len(all)]

\* A finished command, as kept in history.
\* loaded: the file passed load_communities_file (import), or was written
\* (export).
Finished(cmd, dry, loaded, list, before, after, out, code) ==
  [cmd |-> cmd, dry_run |-> dry, loaded |-> loaded, communities |-> list,
   start |-> before, end |-> after, outcome |-> out, exit_code |-> code]

\* ---------------------------------------------- command line and credentials

CredentialFields == <<"client_id", "client_secret", "username", "password">>
FieldSet == {"client_id", "client_secret", "username", "password", "user_agent"}

\* The name get_reddit_credentials reports a missing field under.
ParamName(f) ==
  IF f = "client_id" THEN "client-id"
  ELSE IF f = "client_secret" THEN "client-secret"
  ELSE f

DefaultUserAgent == "reddit-cm:v0.1.0"

\* A key the config file does not have.
Absent == "<absent>"

\* Python's `a or b`.
Or(a, b) == IF Falsy(a) THEN b ELSE a

\* config.get(key, default); config.get(key) is ConfigGet(cfg, key, NoneValue).
ConfigGet(cfg, key, default) == IF cfg[key] = Absent THEN default ELSE cfg[key]

\* `config = {}` and, with --config, the mapping load_config returns.
LoadedConfig(cf) ==
  IF cf.shape = "mapping" THEN cf.values ELSE [f \in FieldSet |-> Absent]

\* The five assignments of get_reddit_credentials.
Credentials(args, cfg) ==
  [f \in FieldSet |->
     IF f = "user_agent"
       THEN Or(args[f], ConfigGet(cfg, f, DefaultUserAgent))
       ELSE Or(args[f], ConfigGet(cfg, f, NoneValue))]

\* Mutant: only the first missing parameter is reported.
MissingParams_FirstOnly(c) ==
  LET all == SelectSeq(CredentialFields, LAMBDA f : Falsy(c[f]))
  IN  IF all = << >> THEN << >> ELSE << ParamName(all[1]) >>

\* missing_params, in the order of the four tests.
MissingParams(c) ==
  LET all == SelectSeq(CredentialFields, LAMBDA f : Falsy(c[f]))
  IN  [k \in 1..Len(all) |-> ParamName(all[k])]

NoCredentials == [f \in FieldSet |-> NoneValue]

SetupResult(error, missing, creds, auth) ==
  [error |-> error, missing |-> missing, creds |-> creds, auth_called |-> auth,
   format_type |-> NoneValue, output_file |-> NoneValue]

\* No command has run yet.
NoSetup == SetupResult("none", << >>, NoCredentials, FALSE)

\* get_reddit_credentials followed by authenticate_reddit, as both commands
\* begin: the error that ends the command ("none" when it goes on), the
\* credentials returned, and whether authenticate_reddit was called.
Setup(args, cf, ok) ==
  IF cf.shape = "bad"
    THEN SetupResult("Failed to parse config file", << >>, NoCredentials, FALSE)
  ELSE LET c == Credentials(args, LoadedConfig(cf))
           m == MissingParams(c)
       IN  IF m # << >>
             THEN SetupResult("Missing required parameters", m, NoCredentials, FALSE)
           ELSE IF ~ok
             THEN SetupResult("Authentication failed", << >>, c, TRUE)
           ELSE SetupResult("none", << >>, c, TRUE)

\* `format_type or 'json'`
FormatType(args) == Or(args.format, "json")

\* The output path of the export command: the default, and the change of
\* its extension for yaml.
OutputFile(args) ==
  LET output_file == Or(args.output, "communities.json")
  IN  IF FormatType(args) = "yaml" /\ output_file = "communities.json"
        THEN "communities.yaml"
        ELSE output_file

\* Mutant: the check that 'communities' is a list is left out.
LoadOk_NoListCheck(d) == d.shape \in {"list", "notlist"}

\* load_communities_file returns the list (and does not raise).
LoadOk(d) == d.shape = "list"

\* ------------------------------------------------------------------ actions

\* `reddit-cm import FILE [--dry-run]` up to the loop: load_communities_file
\* and the three empty lists; a file that fails the load ends the command.
ImportStart ==
  /\ pc = "idle"
  /\ Len(history) < MaxRuns
  /\ \E dry \in BOOLEAN :
       LET s == Setup(cli, config, accepts)
       IN  /\ dry_run' = dry
           /\ successful_joins' = << >>
           /\ failed_joins' = << >>
           /\ already_joined' = << >>
           /\ calls' = << >>
           /\ outcome' = << >>
           /\ idx' = 0
           /\ summary' = NoSummary
           /\ start' = subscribed
           /\ IF s.error = "none" /\ LoadOk(doc)
                THEN /\ communities' = doc.communities
                     /\ pc' = "loop"
                     /\ exit_code' = NoExit
                     /\ history' = history
                     /\ last' = s
                ELSE /\ communities' = << >>
                     /\ pc' = "idle"
                     /\ exit_code' = 1
                     /\ history' = Append(history,
                          Finished("import", dry, FALSE, << >>, subscribed, subscribed,
                                   << >>, 1))
                     /\ last' = IF s.error = "none"
                                  THEN [s EXCEPT !.error = "Import failed"]
                                  ELSE s
  /\ UNCHANGED << doc, platform, subscribed, cli, config, accepts >>

\* One iteration of `for community in community_list`.
ImportRecord ==
  /\ pc = "loop"
  /\ idx < Len(communities)
  /\ LET r == ProcessRecord(communities[idx + 1], dry_run, subscribed, platform)
         cs == [k \in 1..Len(r.calls) |->
                  [op |-> r.calls[k].op, name |-> r.calls[k].name,
                   result |-> r.calls[k].result, idx |-> idx + 1]]
     IN  /\ subscribed' = r.subscribed
         /\ calls' = calls \o cs
         /\ IF r.abort
              THEN /\ pc' = "idle"
                   /\ exit_code' = 1
                   /\ history' = Append(history,
                        Finished("import", dry_run, TRUE, communities, start, subscribed,
                                 outcome, 1))
                   /\ last' = [last EXCEPT !.error = "Import failed"]
                   /\ UNCHANGED << idx, successful_joins, failed_joins,
                                   already_joined, outcome >>
              ELSE /\ successful_joins' = Appended(successful_joins, "joined", r)
                   /\ failed_joins' = Appended(failed_joins, "failed", r)
                   /\ already_joined' = Appended(already_joined, "already", r)
                   /\ outcome' = Append(outcome, r.list)
                   /\ idx' = idx + 1
                   /\ UNCHANGED << pc, exit_code, history, last >>
  /\ UNCHANGED << doc, platform, dry_run, communities, summary, start,
                  cli, config, accepts >>

\* After the last record: the summary is printed and the command ends.
ImportSummary ==
  /\ pc = "loop"
  /\ idx = Len(communities)
  /\ summary' = Summary(dry_run, successful_joins, already_joined, failed_joins, communities)
  /\ pc' = "idle"
  /\ exit_code' = 0
  /\ history' = Append(history,
       Finished("import", dry_run, TRUE, communities, start, subscribed, outcome, 0))
  /\ UNCHANGED << doc, platform, subscribed, dry_run, communities, idx,
                  successful_joins, failed_joins, already_joined, calls,
                  outcome, start, cli, config, accepts, last >>

\* ------------------------------------------------------------------- export

\* Mutant: the name is left out of the exported record.
ExportRecord_NoName(name) == [isdict |-> TRUE, name |-> ""]

\* The dictionary export_communities builds for one subreddit.  Only 'name'
\* is read by the import; the other fields are not modelled.
ExportRecord(name) == [isdict |-> TRUE, name |-> name]

\* reddit.user.subreddits(limit=None): the joined communities, each once, in
\* the platform's order.
Enumerations ==
  { s \in SeqsUpTo(Names, Cardinality(Names)) :
      \A j, k \in 1..Len(s) : j # k => s[j] # s[k] }

ExportDocument(listing) ==
  [shape |-> "list",
   communities |-> [k \in 1..Len(listing) |-> ExportRecord(listing[k])]]

\* `reddit-cm export` of an account whose joined communities the platform
\* lists as `listing`; failed is an exception while listing or writing.
\* The sessions explored have their export, if any, as the first command: a
\* later export leaves a file, platform and remote state that an export-first
\* session reaches as well.
Export ==
  /\ pc = "idle"
  /\ history = << >>
  /\ \E listing \in Enumerations, failed \in BOOLEAN :
       LET s == Setup(cli, config, accepts)
           called == s.error = "none"
           written == called /\ ~failed
       IN  /\ doc' = IF written THEN ExportDocument(listing) ELSE doc
           /\ exit_code' = IF written THEN 0 ELSE 1
           /\ last' = IF called
                        THEN [s EXCEPT !.error = IF failed THEN "Export failed" ELSE "none",
                                       !.format_type = FormatType(cli),
                                       !.output_file = OutputFile(cli)]
                        ELSE s
           /\ history' = Append(history,
                Finished("export", FALSE, written,
                         IF written THEN doc'.communities ELSE << >>,
                         subscribed, subscribed, << >>, exit_code'))
  /\ UNCHANGED << platform, subscribed, pc, dry_run, communities, idx,
                  successful_joins, failed_joins, already_joined, calls,
                  outcome, summary, start, cli, config, accepts >>

\* ------------------------------------------------------------ specification

\* The command line of a user who gives the four credentials as options and
\* nothing else.
UsualCli ==
  [client_id |-> "cli", client_secret |-> "cli", username |-> "cli",
   password |-> "cli", user_agent |-> NoneValue,
   format |-> NoneValue, output |-> NoneValue]

NoConfig  == [shape |-> "none", values |-> [f \in FieldSet |-> Absent]]
BadConfig == [shape |-> "bad", values |-> [f \in FieldSet |-> Absent]]

\* What a field is on the command line and in the config file: not given,
\* empty, or a value.
AllSources == [arg : {NoneValue, "", "cli"}, cfg : {Absent, "", "cfg"}]

\* Three of these: in neither, in both, and empty on the command line with
\* a value in the file.
SomeSources ==
  { [arg |-> NoneValue, cfg |-> Absent],
    [arg |-> "cli", cfg |-> "cfg"],
    [arg |-> "", cfg |-> "cfg"] }

\* The command lines and config files of the credentials: username and
\* user_agent from every pair of sources, the other fields from three.
CredentialInputs ==
  { src \in [FieldSet -> AllSources] :
      \A f \in {"client_id", "client_secret", "password"} : src[f] \in SomeSources }

CliOf(src, format, output) ==
  [client_id |-> src["client_id"].arg, client_secret |-> src["client_secret"].arg,
   username |-> src["username"].arg, password |-> src["password"].arg,
   user_agent |-> src["user_agent"].arg, format |-> format, output |-> output]

ConfigOf(src) == [shape |-> "mapping", values |-> [f \in FieldSet |-> src[f].cfg]]

\* The --format and --output options of the export command.
Formats == {NoneValue, "json", "yaml"}
Outputs == {NoneValue, "", "communities.json", "communities.yaml", "out.json"}

InitWith(docs, platforms) ==
  /\ doc \in docs
  /\ platform \in platforms
  /\ subscribed \in SUBSET Names
  /\ pc = "idle"
  /\ dry_run = FALSE
  /\ communities = << >>
  /\ idx = 0
  /\ successful_joins = << >>
  /\ failed_joins = << >>
  /\ already_joined = << >>
  /\ calls = << >>
  /\ outcome = << >>
  /\ summary = NoSummary
  /\ exit_code = NoExit
  /\ start = subscribed
  /\ history = << >>
  /\ last = NoSetup

UsualCommandLine ==
  /\ cli = UsualCli
  /\ config = NoConfig
  /\ accepts = TRUE

\* Files of up to MaxLen records, each failing call raising its usual message.
Init == InitWith(Docs, UsualPlatforms) /\ UsualCommandLine

\* Short files, each failing call raising any of the messages.
InitErrors == InitWith(ShortDocs, Platforms) /\ UsualCommandLine

\* One file of one record on a platform without failures, with the command
\* lines and config files of CredentialInputs, or with the four credentials
\* given and the export options varying, or with a config file that does
\* not parse.
CliDocs == { [shape |-> "list", communities |-> << [isdict |-> TRUE, name |-> "python"] >>] }
CliPlatforms == { p \in UsualPlatforms : p["privatesub"].site = "none" }

InitCli ==
  /\ InitWith(CliDocs, CliPlatforms)
  /\ subscribed = {}
  /\ accepts \in BOOLEAN
  /\ \/ \E src \in CredentialInputs :
          /\ cli = CliOf(src, NoneValue, NoneValue)
          /\ config = ConfigOf(src)
     \/ \E format \in Formats, output \in Outputs :
          /\ cli = [UsualCli EXCEPT !.format = format, !.output = output]
          /\ config = NoConfig
     \/ /\ cli = UsualCli
        /\ config = BadConfig

Next ==
  \/ ImportStart
  \/ ImportRecord
  \/ ImportSummary
  \/ Export

Spec == Init /\ [][Next]_vars

SpecErrors == InitErrors /\ [][Next]_vars

SpecCli == InitCli /\ [][Next]_vars

\* ------------------------------------------------------------------ helpers

\* Number of positions of seq holding v.
Count(seq, v) == Cardinality({ k \in DOMAIN seq : seq[k] = v })

\* The client calls made for the record at position k of the running (or
\* last) import.
CallsFor(k) == { j \in DOMAIN calls : calls[j].idx = k }

SubscribeCalls == { j \in DOMAIN calls : calls[j].op = "subscribe" }

\* The running (or last) import has gone through the record at position k.
Processed(k) == k \in 1..Len(outcome)

\* ------------------------------------------------------------------- claims

\* C1: a record with a name for which the client reports the account as
\* subscribed is added to already_joined, and no subscribe() call is made
\* for it, whatever dry_run is.
C1_AlreadySubscribedNeverSubscribes ==
  \A j \in DOMAIN calls :
    (calls[j].op = "query" /\ calls[j].result = "true")
      => /\ Processed(calls[j].idx)
         /\ outcome[calls[j].idx] = "already"
         /\ \E a \in DOMAIN already_joined : already_joined[a] = calls[j].name
         /\ \A i \in CallsFor(calls[j].idx) : calls[i].op # "subscribe"

\* A run without --dry-run has gone through a record whose community the
\* client reports as subscribed.
C1_Witness ==
  /\ ~dry_run
  /\ \E j \in DOMAIN calls : calls[j].op = "query" /\ calls[j].result = "true"

\* C2: a dry run makes no subscribe() call and leaves the remote set of
\* subscribed communities as it was; without dry_run the remote set is the
\* one at the start plus the communities whose subscribe() call succeeded.
C2_OnlySuccessfulSubscribesMutate ==
  /\ dry_run => (SubscribeCalls = {} /\ subscribed = start)
  /\ subscribed =
       start \cup { calls[j].name : j \in { i \in SubscribeCalls : calls[i].result = "ok" } }

\* A finished dry run that reported a community it would join.
C2_Witness ==
  /\ dry_run
  /\ pc = "idle"
  /\ summary.printed
  /\ summary.joined > 0

\* C5: the records gone through so far are each in exactly one of the three
\* lists: every list holds as many entries as records were sent to it, the
\* sizes sum to the number of records processed, and at the end to the
\* 'Total processed' of the summary.
C5_ListsPartitionProcessed ==
  /\ Len(outcome) = idx
  /\ Len(successful_joins) = Count(outcome, "joined")
  /\ Len(already_joined) = Count(outcome, "already")
  /\ Len(failed_joins) = Count(outcome, "failed")
  /\ Len(successful_joins) + Len(already_joined) + Len(failed_joins) = idx
  /\ summary.printed =>
       /\ summary.total = idx
       /\ summary.joined + Len(summary.already) + Len(summary.failed) = summary.total

\* A finished run in which each of the three lists got a record.
C5_Witness ==
  /\ summary.printed
  /\ summary.total = MaxLen
  /\ summary.joined > 0
  /\ summary.already # << >>
  /\ summary.failed # << >>

\* C7: for a record whose name is absent or empty no client call is made:
\* no resolve, no subscription query, no subscribe.
C7_MissingNameNoClientCall ==
  \A k \in 1..idx :
    (communities[k].isdict /\ Falsy(communities[k].name)) => CallsFor(k) = {}

\* A run has gone through a record without the 'name' key.
C7_Witness ==
  /\ idx > 0
  /\ communities[idx].isdict
  /\ communities[idx].name = NoneValue

\* An import that loaded its file, went through the loop and printed the
\* summary.
FinishedImport(e) == e.cmd = "import" /\ e.loaded /\ e.exit_code = 0

\* Two imports of the same list, one after the other, started from the same
\* remote state, one of them a dry run.
DryRealPair(a, b) ==
  /\ FinishedImport(a)
  /\ FinishedImport(b)
  /\ a.communities = b.communities
  /\ a.start = b.start
  /\ a.dry_run # b.dry_run

Named(c) == c.isdict /\ ~Falsy(c.name)

\* No community named in the list raises on subscribe().
NoSubscribeRaises(list) ==
  \A k \in DOMAIN list : Named(list[k]) => platform[list[k].name].site # "subscribe"

\* No name occurs twice in the list.
NoRepeatedName(list) ==
  \A j, k \in DOMAIN list :
    (j # k /\ Named(list[j]) /\ Named(list[k])) => list[j].name # list[k].name

C4_LoadedImportNeverAborts ==
  \A r \in DOMAIN history :
    (history[r].cmd = "import" /\ history[r].loaded) =>
       /\ history[r].exit_code = 0
       /\ Len(history[r].outcome) = Len(history[r].communities)

\* Position in failed_joins of the entry of record k, when it failed.
FailedIndex(k) == Cardinality({ j \in 1..k : outcome[j] = "failed" })

\* The scenario: [python, "", privatesub] without --dry-run, python not
\* subscribed and its subscribe() succeeding, privatesub's subscribe()
\* raising "403 Forbidden"; the run has ended.
C6_Scenario ==
  /\ pc = "idle"
  /\ summary.printed
  /\ ~dry_run
  /\ communities = << [isdict |-> TRUE, name |-> "python"],
                      [isdict |-> TRUE, name |-> ""],
                      [isdict |-> TRUE, name |-> "privatesub"] >>
  /\ start = {}
  /\ platform["privatesub"] = [site |-> "subscribe", msg |-> Msg_403Forbidden]

C8_Expected(m) ==
  IF m = Msg_403Forbidden
    THEN [error |-> "Private/Restricted community", detail |-> << >>]
  ELSE IF m = Msg_Http404
    THEN [error |-> "Community not found", detail |-> << >>]
  ELSE IF m = Msg_UserBanned
    THEN [error |-> "Banned from community", detail |-> << >>]
  ELSE IF m = Msg_Banned404
    THEN [error |-> "Community not found", detail |-> << >>]
  ELSE IF m = Msg_PrivateNotFound
    THEN [error |-> "Private/Restricted community", detail |-> << >>]
  ELSE [error |-> "Unknown error: ", detail |-> <<"T","i","m","e","o","u","t">>]

\* A client call for record k raised.
RaisedFor(k) == \E j \in CallsFor(k) : calls[j].result = "raised"

\* C8: whichever of resolve, subscription query and subscribe raises, the
\* record is added to failed_joins with the reason of the first matching
\* rule for the message.
C8_ErrorsClassifiedByPriority ==
  \A k \in 1..Len(outcome) :
    (Named(communities[k]) /\ RaisedFor(k)) =>
       /\ outcome[k] = "failed"
       /\ FailedIndex(k) \in DOMAIN failed_joins
       /\ failed_joins[FailedIndex(k)] =
            [name  |-> communities[k].name,
             error |-> C8_Expected(platform[communities[k].name].msg)]

\* subscribe() raised "Banned: 404", which matches the second and the third
\* rule, and the record is in failed_joins.
C8_Witness ==
  /\ \E j \in DOMAIN calls :
        /\ calls[j].op = "subscribe"
        /\ calls[j].result = "raised"
        /\ platform[calls[j].name].msg = Msg_Banned404
  /\ failed_joins # << >>

\* The last two commands are imports of the same list, the second started
\* from the remote state the first left, and the second has ended.
RerunPair(a, b) ==
  /\ FinishedImport(a)
  /\ FinishedImport(b)
  /\ a.communities = b.communities
  /\ b.start = a.end

\* C9 as claimed: on the second of two runs on the same list every record
\* the first run recorded as joined is already-joined, with no subscribe()
\* call.
C9_RerunAlreadyJoined ==
  (pc = "idle" /\ Len(history) >= 2) =>
    LET a == history[Len(history) - 1]
        b == history[Len(history)]
    IN  RerunPair(a, b) =>
          \A k \in DOMAIN a.outcome :
            a.outcome[k] = "joined" =>
               /\ b.outcome[k] = "already"
               /\ \A j \in CallsFor(k) : calls[j].op # "subscribe"

\* C9, amended: the same, when the first run was made without dry_run, for
\* the records whose handle has the attribute user_is_subscriber.
C9_RerunAlreadyJoinedAmended ==
  (pc = "idle" /\ Len(history) >= 2) =>
    LET a == history[Len(history) - 1]
        b == history[Len(history)]
    IN  (RerunPair(a, b) /\ ~a.dry_run) =>
          \A k \in DOMAIN a.outcome :
            (a.outcome[k] = "joined" /\ platform[a.communities[k].name].site # "noattr") =>
               /\ b.outcome[k] = "already"
               /\ \A j \in CallsFor(k) : calls[j].op # "subscribe"

\* Two runs without dry_run, the first of which joined a community that
\* reports its subscription state.
C9_Witness ==
  /\ pc = "idle"
  /\ Len(history) = 2
  /\ RerunPair(history[1], history[2])
  /\ ~history[1].dry_run
  /\ ~history[2].dry_run
  /\ \E k \in DOMAIN history[1].outcome :
        /\ history[1].outcome[k] = "joined"
        /\ platform[history[1].communities[k].name].site = "none"

\* An export followed by an import, without dry_run, of the exported list
\* into an account that has joined none of its communities.
ExportThenImport(a, b) ==
  /\ a.cmd = "export"
  /\ a.loaded
  /\ FinishedImport(b)
  /\ ~b.dry_run
  /\ b.communities = a.communities
  /\ \A k \in DOMAIN b.communities : b.communities[k].name \notin b.start

\* C10 as claimed: every record whose name resolves is joined.
C10_RoundTripJoinsResolved ==
  \A r \in 1..(Len(history) - 1) :
    ExportThenImport(history[r], history[r + 1]) =>
      \A k \in DOMAIN history[r + 1].communities :
        LET c == history[r + 1].communities[k]
        IN  (Named(c) /\ platform[c.name].site # "resolve")
               => history[r + 1].outcome[k] = "joined"

\* C10, amended: every exported record carries its community's name; it is
\* joined when neither resolve, nor the subscription query, nor subscribe()
\* raises for it, and failed otherwise.
C10_RoundTripJoinsUnlessRaised ==
  \A r \in 1..(Len(history) - 1) :
    ExportThenImport(history[r], history[r + 1]) =>
      \A k \in DOMAIN history[r + 1].communities :
        LET c == history[r + 1].communities[k]
        IN  /\ c.isdict
            /\ c.name \in Names
            /\ platform[c.name].site \in {"none", "noattr"}
                 => history[r + 1].outcome[k] = "joined"
            /\ platform[c.name].site \in {"resolve", "query", "subscribe"}
                 => history[r + 1].outcome[k] = "failed"

\* Both communities exported and both joined by the import.
C10_Witness ==
  /\ Len(history) = 2
  /\ ExportThenImport(history[1], history[2])
  /\ Len(history[2].communities) = Cardinality(Names)
  /\ \A k \in DOMAIN history[2].outcome : history[2].outcome[k] = "joined"

\* A value a source really supplies: neither absent nor empty.
Usable(v) == v \notin {NoneValue, "", Absent}

\* What the config file named by --config holds for field f.
FromFile(f) == IF config.shape = "mapping" THEN config.values[f] ELSE Absent

\* A command has got as far as resolving its credentials.
CredentialsResolved == (history # << >> \/ pc = "loop") /\ config.shape # "bad"

\* C11: for every combination of supplied, empty and absent values on the
\* command line and in the config file, the resolved value of a field is the
\* command line's when it supplies one, else the config file's when it
\* supplies one, and the resolved user-agent is 'reddit-cm:v0.1.0' when
\* neither supplies a usable value.
C11_CliThenConfigThenDefault ==
  last.auth_called =>
    \A f \in FieldSet :
      /\ Usable(cli[f]) => last.creds[f] = cli[f]
      /\ (~Usable(cli[f]) /\ Usable(FromFile(f))) => last.creds[f] = FromFile(f)
      /\ (f = "user_agent" /\ ~Usable(cli[f]) /\ ~Usable(FromFile(f)))
           => last.creds[f] = DefaultUserAgent

\* The required fields neither source supplies, under the names of their
\* options, in the order client-id, client-secret, username, password.
C12_Missing ==
  LET all == SelectSeq(CredentialFields,
                       LAMBDA f : ~Usable(cli[f]) /\ ~Usable(FromFile(f)))
  IN  [k \in 1..Len(all) |-> ParamName(all[k])]

\* C12: when client-id, client-secret, username or password is missing after
\* resolution, the command ends with exit code 1 and an error naming every
\* missing field, before authenticate_reddit is called and before any call
\* on the platform or any summary; when none is missing no such error is
\* raised and the four resolved values are returned.
C12_MissingCredentialsAbortBeforeAuth ==
  CredentialsResolved =>
    IF C12_Missing # << >>
      THEN /\ last.error = "Missing required parameters"
           /\ last.missing = C12_Missing
           /\ ~last.auth_called
           /\ pc = "idle"
           /\ exit_code = 1
           /\ calls = << >>
           /\ ~summary.printed
           /\ subscribed = start
           /\ \A r \in DOMAIN history : ~history[r].loaded /\ history[r].exit_code = 1
      ELSE /\ last.error # "Missing required parameters"
           /\ last.missing = << >>
           /\ last.auth_called
           /\ \A k \in DOMAIN CredentialFields :
                LET f == CredentialFields[k]
                IN  last.creds[f] = IF Usable(cli[f]) THEN cli[f] ELSE FromFile(f)

\* A command ended naming two or more missing fields, the username given
\* empty on the command line among them.
C12_Witness ==
  /\ history # << >>
  /\ last.error = "Missing required parameters"
  /\ Len(last.missing) >= 2
  /\ cli.username = ""
  /\ \E k \in DOMAIN last.missing : last.missing[k] = "username"

\* C13: when the import document is not a mapping, has no 'communities' key,
\* or its 'communities' is not a list, the import ends with an error and exit
\* code 1 before any record is gone through: no resolve, query or subscribe
\* call is made, nothing is added to a list, the remote state is as it was
\* and no summary is printed.
C13_BadDocumentFailsBeforeReconciling ==
  (/\ pc = "idle"
   /\ history # << >>
   /\ history[Len(history)].cmd = "import"
   /\ doc.shape \in {"notmapping", "nokey", "notlist"})
    => /\ last.error = "Import failed"
       /\ exit_code = 1
       /\ ~history[Len(history)].loaded
       /\ calls = << >>
       /\ outcome = << >>
       /\ idx = 0
       /\ successful_joins = << >> /\ already_joined = << >> /\ failed_joins = << >>
       /\ subscribed = start
       /\ ~summary.printed

\* The second command, an import of a document whose 'communities' is not a
\* list, has ended.
C13_Witness ==
  /\ pc = "idle"
  /\ Len(history) = 2
  /\ history[2].cmd = "import"
  /\ doc.shape = "notlist"
  /\ exit_code = 1

\* C14: the export is written to 'communities.yaml' when the format is yaml
\* and --output is not supplied, to 'communities.json' when the format is
\* json (the default) and --output is not supplied, and to exactly the
\* supplied path when --output is supplied.
C14_OutputIsSuppliedOrDefault ==
  last.output_file # NoneValue =>
    /\ last.format_type = IF Usable(cli.format) THEN cli.format ELSE "json"
    /\ Usable(cli.output) => last.output_file = cli.output
    /\ ~Usable(cli.output) =>
         last.output_file = IF last.format_type = "yaml" THEN "communities.yaml"
                                                         ELSE "communities.json"

\* The positions up to k of the records sent to list l, in input order.
RECURSIVE PositionsOf(_, _)
PositionsOf(l, k) ==
  IF k = 0 THEN << >>
  ELSE IF outcome[k] = l THEN Append(PositionsOf(l, k - 1), k)
  ELSE PositionsOf(l, k - 1)

\* The name a record is listed under.
ListedName(c) == IF Falsy(c.name) THEN "Unknown" ELSE c.name

\* C15: records are gone through in input order and never deduplicated:
\* every record with a name gets its own resolve call, whether or not the
\* name occurred before, and each list holds its records in input order;
\* the summary of an empty list reports zero joined, no already-joined, no
\* failed and a total of 0.
C15_InputOrderNoDeduplication ==
  /\ \A k \in 1..Len(outcome) :
       Named(communities[k]) =>
         Cardinality({ j \in CallsFor(k) : calls[j].op = "resolve"
                                            /\ calls[j].name = communities[k].name }) = 1
  /\ LET a == PositionsOf("already", Len(outcome))
         f == PositionsOf("failed", Len(outcome))
         j == PositionsOf("joined", Len(outcome))
     IN  /\ already_joined = [n \in DOMAIN a |-> communities[a[n]].name]
         /\ successful_joins = [n \in DOMAIN j |-> communities[j[n]].name]
         /\ [n \in DOMAIN failed_joins |-> failed_joins[n].name]
              = [n \in DOMAIN f |-> ListedName(communities[f[n]])]
  /\ \A n \in 1..(Len(calls) - 1) : calls[n].idx <= calls[n + 1].idx
  /\ (summary.printed /\ communities = << >>) =>
       /\ summary.joined = 0
       /\ summary.already = << >>
       /\ summary.failed = << >>
       /\ summary.total = 0

\* A finished run whose list names one community twice and whose failed
\* list holds a record without a name before the two records of that name.
C15_Witness ==
  /\ summary.printed
  /\ Len(communities) = 3
  /\ communities[2] = communities[3]
  /\ Len(summary.failed) = 3
  /\ summary.failed[1].name = "Unknown"
  /\ summary.failed[2].name = "privatesub"
  /\ summary.failed[3].name = "privatesub"

\* A finished import of an empty list.
C15_EmptyWitness ==
  /\ summary.printed
  /\ communities = << >>
  /\ history # << >>

\* The calls made for record k, oldest first.
CallSeqFor(k) == SelectSeq(calls, LAMBDA c : c.idx = k)

\* C16: for each record at most one resolve, then at most one subscription
\* query, then at most one subscribe() call is made, in that order; all calls
\* for a record precede every call for the next record; and after a call
\* raises no further call is made for that record.
C16_OneAttemptInOrder ==
  /\ \A k \in 1..idx :
       LET cs == CallSeqFor(k)
           ops == [n \in DOMAIN cs |-> cs[n].op]
       IN  /\ ops \in { << >>, <<"resolve">>, <<"resolve", "query">>,
                        <<"resolve", "query", "subscribe">> }
           /\ \A n \in DOMAIN cs : cs[n].result = "raised" => n = Len(cs)
           /\ \A n \in DOMAIN cs : cs[n].name = communities[k].name
  /\ \A m, n \in DOMAIN calls : m < n => calls[m].idx <= calls[n].idx
  /\ \A n \in DOMAIN calls : calls[n].idx \in 1..idx

\* A run made all three calls for one record, then a call that raised for
\* the next, and has gone on to a third record.
C16_Witness ==
  /\ idx = 3
  /\ Len(CallSeqFor(1)) = 3
  /\ RaisedFor(2)
  /\ CallSeqFor(3) # << >>

====
